---- MODULE Spec2Model ----
(***************************************************************************)
(* Model of the MABackend express server: the Register, Login and video    *)
(* upload routes over the User and Video collections.                      *)
(*                                                                         *)
(* One action per route segment between two awaited store or media-host    *)
(* calls.  Synchronous code and purely local awaits (bcrypt, jwt) run      *)
(* inside the segment that precedes them.  A request that is waiting for a *)
(* store or media-host call is an element of the bag inflight; the most    *)
(* recently finished handler, with the response it sent, is in last.       *)
(*                                                                         *)
(* The routes are those of the revision that records a video's owner; the  *)
(* Register and Login routes of index.js differ from it only in the user   *)
(* object of the response body, which is the stored document in both.      *)
(***************************************************************************)
EXTENDS Integers, FiniteSets, Bags, TLC

\* ------------------------------------------------------------------ bounds

\* Requests in flight at the same time.
MaxReqs == 2
\* Last instant of the simulated clock, in hours.
MaxClock == 25
\* bcrypt draws a random salt per hash call: salts are 1..MaxSalt.
MaxSalt == 2
\* No new upload request is accepted once this many Video records exist.
MaxVideos == 1

\* ------------------------------------------------------------------ inputs

\* A body field that is absent from the request (JavaScript undefined).
Undefined == "<undefined>"
Body(username, email, password) == [username |-> username, email |-> email, password |-> password]
\* Register bodies: three complete ones (the first clashes with the second on
\* the username and with the third on the email, the last two are
\* compatible), and one for each field left out or empty.
RegisterBodies ==
    {Body("alice", "a@x.com", "pw123"), Body("alice", "other@x.com", "pw456"),
     Body("bob", "a@x.com", "pw456"),
     Body(Undefined, "a@x.com", "pw123"), Body("alice", "", "pw123"),
     Body("bob", "other@x.com", Undefined)}
\* Login bodies: the password may be absent, empty, or one of two strings.
LoginBodies ==
    {Body(u, Undefined, p) : u \in {"alice", "bob"}, p \in {Undefined, "", "pw123", "pw456"}}
\* userId of an upload body: absent, a well-formed ObjectId (1, 2), or a
\* string that is no ObjectId.
NoId == 0
BadId == -1
UserIds == {NoId, 1, 2, BadId}
Salts == 1..MaxSalt

\* A validation that only notices absent fields.
FalsyUndefinedOnly(x) == x = Undefined
\* `!x` of JavaScript on a body field.
Falsy(x) == x \in {Undefined, ""}

\* ------------------------------------------------------------------ bcrypt

Code(p) == CASE p = "" -> 0 [] p = "pw123" -> 1 [] p = "pw456" -> 2 [] OTHER -> 3
Digest(salt, p) == salt * 4 + Code(p)
\* bcrypt.hash(password, 10): the salt travels with the digest.
BcryptHash(p, salt) == [salt |-> salt, digest |-> Digest(salt, p)]
\* A comparison that accepts every plaintext.
BcryptCompareAny(p, h) == TRUE
\* A comparison that ignores the salt stored with the digest.
BcryptCompareFixedSalt(p, h) == Digest(1, p) = h.digest
\* bcrypt.compare(password, user.password)
BcryptCompare(p, h) == Digest(h.salt, p) = h.digest
\* bcryptjs rejects ("Illegal arguments") when the plaintext is no string.
BcryptThrows(p) == p = Undefined

\* ------------------------------------------------------------------ jwt

\* expiresIn: "24h", on a clock that counts hours.
TTL == 24
NoToken == [sub |-> 0, iat |-> 0, exp |-> 0]
\* A token signed with twice the lifetime.
JwtSignLong(userId, t) == [sub |-> userId, iat |-> t, exp |-> t + TTL + TTL]
\* jwt.sign({ userId: user._id }, secret, { expiresIn: "24h" })
JwtSign(userId, t) == [sub |-> userId, iat |-> t, exp |-> t + TTL]
\* Token Issuer validate: the token is rejected once its expiry has passed.
JwtVerify(tok, t) == tok # NoToken /\ t < tok.exp

\* ------------------------------------------------------------------ state

VARIABLES users, videos, inflight, last, now, regLog

vars == <<users, videos, inflight, last, now, regLog>>

\* Field names of the user object a success response carries.
UserDocFields == {"_id", "username", "email", "password", "videos", "followers", "following", "__v"}

\* A request: the body fields of all three routes, the handler's position,
\* the operations it has performed so far, and two history fields taken
\* when the request arrived: clash (a stored User had its username or its
\* email) and regd (the id of the User registered with its username and
\* plaintext, else 0).
Request(kind, pc, username, email, password, file, userId, clash, regd, ops) ==
    [kind |-> kind, pc |-> pc, username |-> username, email |-> email,
     password |-> password, file |-> file, userId |-> userId,
     clash |-> clash, regd |-> regd, ops |-> ops]

NoRequest == Request("none", "end", Undefined, Undefined, Undefined, FALSE, NoId, FALSE, 0, {})

\* A finished handler: the request, the number of responses sent, and the
\* response (status 0 when none was sent).
Finished(r, ops, nres, status, message, token, userFields) ==
    [req |-> [r EXCEPT !.pc = "end", !.ops = ops], nres |-> nres, status |-> status,
     message |-> message, token |-> token, userFields |-> userFields]

Respond(r, ops, status, message) == Finished(r, ops, 1, status, message, NoToken, {})

InFlight == BagToSet(inflight)
Add(r) == inflight (+) SetToBag({r})
Move(r, s) == (inflight (-) SetToBag({r})) (+) SetToBag({s})
Remove(r) == inflight (-) SetToBag({r})

Init ==
    /\ users = {}
    /\ videos = {}
    /\ inflight = EmptyBag
    /\ last = Finished(NoRequest, {}, 0, 0, "", NoToken, {})
    /\ now = 0
    /\ regLog = {}

\* ------------------------------------------------------------------ store

\* A pre-check that looks at the email only.
FindByEmailOnly(username, email) == {u \in users : u.email = email}
\* User.findOne({ $or: [{ email }, { username }] })
FindByHandleOrEmail(username, email) ==
    {u \in users : u.email = email \/ u.username = username}
\* User.findOne({ username })
FindByHandle(username) == {u \in users : u.username = username}
\* A lookup that drops its filter.
FindAnyUser(userId) == users
\* User.findById(userId)
FindById(userId) == {u \in users : u.id = userId}
\* A schema whose email field carries no unique index.
DuplicateKeyUsernameOnly(username, email) == \E u \in users : u.username = username
\* The unique indexes of the User schema: the insert is rejected (E11000)
\* when a stored record has the username or the email.
DuplicateKey(username, email) ==
    \E u \in users : u.username = username \/ u.email = email
NewUser(username, email, hashed) ==
    [id |-> Cardinality(users) + 1, username |-> username, email |-> email, password |-> hashed]

\* ------------------------------------------------------------------ Register

RegisterStart(body) ==
    /\ BagCardinality(inflight) < MaxReqs
    /\ LET username == body.username
           email == body.email
           password == body.password
           r == Request("register", "findOne", username, email, password, FALSE, NoId,
                        \E u \in users : u.username = username \/ u.email = email, 0, {})
       IN IF Falsy(username) \/ Falsy(email) \/ Falsy(password)
          THEN /\ last' = Respond(r, {}, 400, "All fields required")
               /\ UNCHANGED inflight
          ELSE /\ inflight' = Add(r)
               /\ UNCHANGED last
    /\ UNCHANGED <<users, videos, now, regLog>>

RegisterFindOne(r) ==
    /\ r \in InFlight /\ r.kind = "register" /\ r.pc = "findOne"
    /\ LET ops == r.ops \cup {"findOne"}
       IN IF FindByHandleOrEmail(r.username, r.email) # {}
          THEN /\ last' = Respond(r, ops, 400, "User already exists")
               /\ inflight' = Remove(r)
          ELSE /\ inflight' = Move(r, [r EXCEPT !.pc = "create", !.ops = ops])
               /\ UNCHANGED last
    /\ UNCHANGED <<users, videos, now, regLog>>

RegisterCreate(r, salt) ==
    /\ r \in InFlight /\ r.kind = "register" /\ r.pc = "create"
    /\ LET hashed == BcryptHash(r.password, salt)
           user == NewUser(r.username, r.email, hashed)
           ops == r.ops \cup {"hash", "create"}
       IN IF DuplicateKey(r.username, r.email)
          THEN /\ last' = Respond(r, ops, 500, "Registration failed")
               /\ UNCHANGED <<users, regLog>>
          ELSE /\ users' = users \cup {user}
               /\ regLog' = regLog \cup {[id |-> user.id, username |-> r.username, plaintext |-> r.password]}
               /\ last' = Finished(r, ops \cup {"inserted", "sign"}, 1, 201, "",
                                   JwtSign(user.id, now), UserDocFields \cup {"id"})
    /\ inflight' = Remove(r)
    /\ UNCHANGED <<videos, now>>

\* ------------------------------------------------------------------ Login

LoginStart(body) ==
    /\ BagCardinality(inflight) < MaxReqs
    /\ LET username == body.username
           password == body.password
           known == {g \in regLog : g.username = username /\ g.plaintext = password}
           regd == IF known = {} THEN 0 ELSE (CHOOSE g \in known : TRUE).id
       IN inflight' = Add(Request("login", "findOne", username, Undefined, password, FALSE, NoId,
                                  \E u \in users : u.username = username, regd, {}))
    /\ UNCHANGED <<users, videos, last, now, regLog>>

LoginFindOne(r) ==
    /\ r \in InFlight /\ r.kind = "login" /\ r.pc = "findOne"
    /\ LET found == FindByHandle(r.username)
           user == CHOOSE u \in found : TRUE
           ops == r.ops \cup {"findOne"}
       IN last' =
            IF found = {} THEN Respond(r, ops, 401, "User not found")
            ELSE IF BcryptThrows(r.password) THEN Respond(r, ops \cup {"compare"}, 500, "Login failed")
            ELSE IF ~BcryptCompare(r.password, user.password)
                 THEN Respond(r, ops \cup {"compare"}, 401, "Invalid password")
            ELSE Finished(r, ops \cup {"compare", "sign"}, 1, 200, "",
                          JwtSign(user.id, now), UserDocFields \cup {"id"})
    /\ inflight' = Remove(r)
    /\ UNCHANGED <<users, videos, now, regLog>>

\* ------------------------------------------------------------------ Upload

UploadStart(file, userId) ==
    /\ BagCardinality(inflight) < MaxReqs
    /\ Cardinality(videos) < MaxVideos
    /\ LET r == Request("upload", "findById", Undefined, Undefined, Undefined, file, userId,
                        FALSE, 0, {})
       IN IF ~file \/ userId = NoId
          THEN /\ last' = Respond(r, {}, 400, "Missing video file or user ID")
               /\ UNCHANGED inflight
          ELSE /\ inflight' = Add(r)
               /\ UNCHANGED last
    /\ UNCHANGED <<users, videos, now, regLog>>

UploadFindById(r) ==
    /\ r \in InFlight /\ r.kind = "upload" /\ r.pc = "findById"
    /\ LET ops == r.ops \cup {"findById"}
       IN IF r.userId = BadId
          THEN /\ last' = Respond(r, ops, 500, "Upload error")
               /\ inflight' = Remove(r)
          ELSE IF FindById(r.userId) = {}
          THEN /\ last' = Respond(r, ops, 404, "User not found")
               /\ inflight' = Remove(r)
          ELSE /\ inflight' = Move(r, [r EXCEPT !.pc = "upload_stream", !.ops = ops \cup {"upload_stream"}])
               /\ UNCHANGED last
    /\ UNCHANGED <<users, videos, now, regLog>>

\* The media host's completion callback: err is the host's error, created
\* tells whether Video.create resolved.
UploadCallback(r, err, created) ==
    /\ r \in InFlight /\ r.kind = "upload" /\ r.pc = "upload_stream"
    /\ IF err
       THEN /\ last' = Respond(r, r.ops, 500, "Upload failed")
            /\ UNCHANGED videos
       ELSE IF created
       THEN /\ videos' = videos \cup {[userId |-> r.userId, public_id |-> Cardinality(videos) + 1]}
            /\ last' = Respond(r, r.ops \cup {"Video.create", "inserted"}, 200, "Upload successful")
       ELSE /\ last' = Finished(r, r.ops \cup {"Video.create"}, 0, 0, "", NoToken, {})
            /\ UNCHANGED videos
    /\ inflight' = Remove(r)
    /\ UNCHANGED <<users, now, regLog>>

\* ------------------------------------------------------------------ clock

Tick ==
    /\ now < MaxClock
    /\ now' = now + 1
    /\ UNCHANGED <<users, videos, inflight, last, regLog>>

\* ------------------------------------------------------------------ specifications

\* The authentication routes, with up to MaxReqs requests interleaved.
Next ==
    \/ \E b \in RegisterBodies : RegisterStart(b)
    \/ \E r \in InFlight : RegisterFindOne(r)
    \/ \E r \in InFlight, s \in Salts : RegisterCreate(r, s)
    \/ \E b \in LoginBodies : LoginStart(b)
    \/ \E r \in InFlight : LoginFindOne(r)

Spec == Init /\ [][Next]_vars

\* Register and the upload route, with up to MaxReqs requests interleaved.
UploadNext ==
    \/ \E b \in RegisterBodies : RegisterStart(b)
    \/ \E r \in InFlight : RegisterFindOne(r)
    \/ \E r \in InFlight, s \in Salts : RegisterCreate(r, s)
    \/ \E f \in BOOLEAN, id \in UserIds : UploadStart(f, id)
    \/ \E r \in InFlight : UploadFindById(r)
    \/ \E r \in InFlight, err \in BOOLEAN, created \in BOOLEAN : UploadCallback(r, err, created)

SpecUpload == Init /\ [][UploadNext]_vars

\* The authentication routes under the simulated clock, one request at a
\* time.
ClockNext ==
    \/ Tick
    \/ inflight = EmptyBag /\ \E b \in RegisterBodies : RegisterStart(b)
    \/ \E r \in InFlight : RegisterFindOne(r)
    \/ \E r \in InFlight, s \in Salts : RegisterCreate(r, s)
    \/ inflight = EmptyBag /\ \E b \in LoginBodies : LoginStart(b)
    \/ \E r \in InFlight : LoginFindOne(r)

SpecClock == Init /\ [][ClockNext]_vars

\* ------------------------------------------------------------------ claims

\* The request of the most recently finished handler.
Req == last.req
\* A field that is absent or empty.
Empty(x) == x = Undefined \/ x = ""
Complete(r) == ~Empty(r.username) /\ ~Empty(r.email) /\ ~Empty(r.password)
Clashing(r) == {u \in users : u.username = r.username \/ u.email = r.email}
\* The handler that has just finished, seen from the step that finished it.
Finishes(kind) == last' # last /\ last'.req.kind = kind

\* C1: in every reachable state, under any interleaving of Register
\* requests, no two User records share a username and no two share an email.
C1_UniqueHandleAndEmail ==
    \A u, v \in users : (u.username = v.username \/ u.email = v.email) => u = v
\* Two Register requests raced past the pre-check and the store refused one.
C1_Witness ==
    /\ Req.kind = "register" /\ "create" \in Req.ops /\ "inserted" \notin Req.ops
    /\ users # {}

\* C2: a Register request that passed the pre-check and lost the race for
\* its username or email answers 400 "User already exists".
C2_LoserSurfacesConflict ==
    (Req.kind = "register" /\ "create" \in Req.ops /\ "inserted" \notin Req.ops)
        => (last.status = 400 /\ last.message = "User already exists")

\* C3 as stated: every Register request whose username or email belonged to
\* a stored User when it arrived answers 400 "User already exists" and
\* creates no record.
C3_Original ==
    (Req.kind = "register" /\ Req.clash)
        => (last.status = 400 /\ last.message = "User already exists"
            /\ "inserted" \notin Req.ops)
\* C3 amended: every Register request with all three fields non-empty whose
\* username or email belonged to a stored User when it arrived answers 400
\* "User already exists", carries no token, inserts no record, and leaves
\* at most one record with that username and at most one with that email.
C3_ConflictRejected ==
    /\ [](  (Req.kind = "register" /\ Req.clash /\ Complete(Req))
            => /\ last.status = 400 /\ last.message = "User already exists"
               /\ last.nres = 1 /\ last.token = NoToken
               /\ "inserted" \notin Req.ops /\ "sign" \notin Req.ops
               /\ Clashing(Req) # {}
               /\ Cardinality({u \in users : u.username = Req.username}) <= 1
               /\ Cardinality({u \in users : u.email = Req.email}) <= 1)
    /\ [][(Finishes("register") /\ last'.req.clash /\ Complete(last'.req))
            => users' = users]_vars
C3_Witness ==
    /\ Req.kind = "register" /\ Req.clash /\ Complete(Req)
    /\ last.status = 400 /\ Cardinality(users) = 2

\* C4 as stated: every Register request with all three fields non-empty
\* whose username and email belonged to no stored User when it arrived
\* answers 201.
C4_Original ==
    (Req.kind = "register" /\ Complete(Req) /\ ~Req.clash) => last.status = 201
\* C4 amended: a Register request with all three fields non-empty answers
\* 201 with a token for the record it inserted, unless a record with its
\* username or email is in the store by the time its insert runs; and a
\* Login that arrives after a Register answered 201, with that username and
\* plaintext, answers 200 with a token whose subject is that record's id.
C4_RegisterThenLogin ==
    /\ (Req.kind = "register" /\ Complete(Req))
         => \/ /\ last.status = 201 /\ last.nres = 1 /\ last.token # NoToken
               /\ \E u \in users : u.username = Req.username /\ u.email = Req.email
                                   /\ u.id = last.token.sub
            \/ /\ last.status # 201 /\ last.token = NoToken
               /\ "inserted" \notin Req.ops /\ Clashing(Req) # {}
    /\ (Req.kind = "login" /\ Req.regd # 0)
         => /\ last.status = 200 /\ last.nres = 1
            /\ last.token # NoToken /\ last.token.sub = Req.regd
            /\ \E u \in users : u.id = Req.regd /\ u.username = Req.username
\* A Login for the second registered user succeeded.
C4_Witness ==
    /\ Req.kind = "login" /\ Req.regd = 2 /\ last.status = 200
    /\ last.token.sub = 2

C6_ValidationFirst ==
    /\ [](  (Req.kind = "register" /\ ~Complete(Req))
            => /\ last.status = 400 /\ last.message = "All fields required"
               /\ last.nres = 1 /\ Req.ops = {} /\ last.token = NoToken)
    /\ [][(Finishes("register") /\ ~Complete(last'.req))
            => (users' = users /\ inflight' = inflight)]_vars
C6_Witness ==
    /\ Req.kind = "register" /\ Req.email = "" /\ last.status = 400
    /\ users # {}

\* C7: the user object of a successful Register or Login response has no
\* password hash field.
C7_NoHashInResponse ==
    (Req.kind \in {"register", "login"} /\ last.status \in {200, 201})
        => "password" \notin last.userFields

\* C8: a token minted by Register or Login is valid at every instant from
\* its issuance up to TTL later and expired at every instant after that.
C8_TokenLifetime ==
    last.token # NoToken =>
        /\ last.token.iat <= now
        /\ \A t \in 0..(MaxClock + TTL + 1) :
             /\ (last.token.iat <= t /\ t < last.token.iat + TTL) => JwtVerify(last.token, t)
             /\ t > last.token.iat + TTL => ~JwtVerify(last.token, t)
\* The clock has passed the horizon of the token issued last.
C8_Witness ==
    last.token # NoToken /\ now > last.token.iat + TTL

\* C9: every handler that has finished has sent exactly one response.
C9_ExactlyOneResponse ==
    Req.kind # "none" => last.nres = 1

\* C10: a Video record is inserted only by an upload request that carried a
\* file and a userId, found a User with that id and got no error from the
\* media host; every Video record's userId is the id of a stored User; an
\* upload that answers 400, 404 or "Upload failed" inserts no Video record.
C10_VideoOwner ==
    /\ [](\A v \in videos : \E u \in users : u.id = v.userId)
    /\ [][videos' # videos
            => /\ last'.req.kind = "upload" /\ last'.status = 200
               /\ last'.req.file /\ last'.req.userId \notin {NoId, BadId}
               /\ \E u \in users : u.id = last'.req.userId
               /\ \E v \in videos' : v.userId = last'.req.userId /\ videos' = videos \cup {v}]_vars
    /\ [][(Finishes("upload") /\ last'.status # 200) => videos' = videos]_vars
C10_Witness ==
    /\ Req.kind = "upload" /\ last.status = 200
    /\ \E v \in videos : v.userId = 2

====
